---- MODULE Spec2Model ----
(***************************************************************************)
(* Model of sdk/python/feast/infra/offline_stores/contrib/                 *)
(* db2_offline_store/db2_source.py: DB2Source, DB2Options and              *)
(* SavedDatasetDB2Storage.                                                 *)
(*                                                                         *)
(* Python strings are sequences of characters, None is the distinguished   *)
(* value None, objects are records.  A call returns either Return(v) or    *)
(* Raise(e).  The inputs of the calls are drawn in Init, the actions apply *)
(* the methods of the module to them.                                      *)
(***************************************************************************)
EXTENDS Integers, Sequences, FiniteSets, TLC

VARIABLES args, args2, cfg, table_ref, source, other, proto, storage,
          storage_proto, ret, pc, conn_open, cur_open, log

vars == <<args, args2, cfg, table_ref, source, other, proto, storage,
          storage_proto, ret, pc, conn_open, cur_open, log>>

----------------------------------------------------------------------------
(* Bounds and value universes *)

MaxLen == 2

Chars == {"t"}

RECURSIVE StrsUpTo(_)
StrsUpTo(n) ==
    IF n = 0 THEN {<<>>}
    ELSE LET S == StrsUpTo(n - 1)
         IN S \cup {Append(s, c) : s \in {x \in S : Len(x) = n - 1}, c \in Chars}

Strs == StrsUpTo(MaxLen)

None == <<"None">>

OptStr == Strs \cup {None}

Null == [null |-> TRUE]

NoExc == "NoExc"

Return(v) == [exc |-> NoExc, value |-> v]

Raise(e) == [exc |-> e, value |-> Null]

EmptyDict == {}

NoneDict == {<<"None">>}

----------------------------------------------------------------------------
(* Python truthiness of an Optional[str] and the `x or y` expression *)

Truthy(x) == x # None /\ x # <<>>

PyOr(x, y) == IF Truthy(x) THEN x ELSE y

DictOr(d, e) == IF d = NoneDict \/ d = EmptyDict THEN e ELSE d

----------------------------------------------------------------------------
(* json.dumps / json.loads on a flat object.  The text of an object is the *)
(* ordered list of its members, each a key and an encoded value: a string  *)
(* is written as a quoted string, None as null.                            *)

JsonValue(v) == IF v = None THEN <<"null">> ELSE <<"str", v>>

PyValue(j) == IF j[1] = "null" THEN None ELSE j[2]

json_dumps(members) ==
    [i \in 1..Len(members) |-> <<members[i][1], JsonValue(members[i][2])>>]

LastIndexOf(text, k) ==
    CHOOSE i \in 1..Len(text) :
        /\ text[i][1] = k
        /\ \A j \in (i + 1)..Len(text) : text[j][1] # k

json_loads(text) ==
    [k \in {text[i][1] : i \in 1..Len(text)} |-> PyValue(text[LastIndexOf(text, k)][2])]

encode(text) == [bytes |-> text]

decode(b) == b.bytes

----------------------------------------------------------------------------
(* feast.data_source.DataSource, the base class of DB2Source: it stores    *)
(* the name and the common fields, an absent field as the empty value, and *)
(* compares all of them.                                                   *)

DataSource__init__(name, a) ==
    [name |-> name,
     timestamp_field |-> PyOr(a.timestamp_field, <<>>),
     created_timestamp_column |-> PyOr(a.created_timestamp_column, <<>>),
     field_mapping |-> DictOr(a.field_mapping, EmptyDict),
     description |-> PyOr(a.description, <<>>),
     tags |-> DictOr(a.tags, EmptyDict),
     owner |-> PyOr(a.owner, <<>>)]

DataSource__eq__(s, o) ==
    /\ s.name = o.name
    /\ s.timestamp_field = o.timestamp_field
    /\ s.created_timestamp_column = o.created_timestamp_column
    /\ s.field_mapping = o.field_mapping
    /\ s.description = o.description
    /\ s.tags = o.tags
    /\ s.owner = o.owner

----------------------------------------------------------------------------
(* class DB2Options *)

DB2Options__init__Raw(name, query, table) ==
    [_name |-> name, _query |-> query, _table |-> table]

DB2Options__init__(name, query, table) ==
    [_name |-> PyOr(name, <<>>),
     _query |-> PyOr(query, <<>>),
     _table |-> PyOr(table, <<>>)]

OptionKeys == {"name", "query", "table"}

DB2Options_from_proto_Get(db2_options_proto) ==
    LET config == json_loads(decode(db2_options_proto.configuration))
        get(k) == IF k \in DOMAIN config THEN config[k] ELSE None
    IN  Return(DB2Options__init__(get("name"), get("query"), get("table")))

DB2Options_from_proto(db2_options_proto) ==
    LET config == json_loads(decode(db2_options_proto.configuration))
    IN  IF ~(OptionKeys \subseteq DOMAIN config)
        THEN Raise("KeyError")
        ELSE Return(DB2Options__init__(config["name"], config["query"],
                                       config["table"]))

DB2Options_to_proto(o) ==
    [configuration |->
        encode(json_dumps(<< <<"name", o._name>>,
                             <<"query", o._query>>,
                             <<"table", o._table>> >>))]

----------------------------------------------------------------------------
(* class DB2Source *)

DB2Source__init__NoNameCheck(a) ==
    LET _db2_options == DB2Options__init__(a.name, a.query, a.table)
        name == PyOr(a.name, a.table)
    IN  IF ~Truthy(name)
        THEN Raise("AssertionError")
        ELSE Return([_db2_options |-> _db2_options]
                    @@ DataSource__init__(name, a))

DB2Source__init__NoAssert(a) ==
    LET _db2_options == DB2Options__init__(a.name, a.query, a.table)
        name == PyOr(a.name, a.table)
    IN  IF a.name = None /\ a.table = None
        THEN Raise("DataSourceNoNameException")
        ELSE Return([_db2_options |-> _db2_options]
                    @@ DataSource__init__(name, a))

DB2Source__init__(a) ==
    LET _db2_options == DB2Options__init__(a.name, a.query, a.table)
        name == PyOr(a.name, a.table)
    IN  IF a.name = None /\ a.table = None
        THEN Raise("DataSourceNoNameException")
        ELSE IF ~Truthy(name)
        THEN Raise("AssertionError")
        ELSE Return([_db2_options |-> _db2_options]
                    @@ DataSource__init__(name, a))

DB2Source__eq__(s, o) ==
    /\ DataSource__eq__(s, o)
    /\ s._db2_options._query = o._db2_options._query
    /\ s.timestamp_field = o.timestamp_field
    /\ s.created_timestamp_column = o.created_timestamp_column
    /\ s.field_mapping = o.field_mapping

HasCustomOptions(data_source) == data_source.custom_options # Null

DB2Source_from_proto_EnvelopeName(data_source) ==
    IF ~HasCustomOptions(data_source)
    THEN Raise("AssertionError")
    ELSE LET db2_options ==
                 json_loads(decode(data_source.custom_options.configuration))
         IN  IF ~(OptionKeys \subseteq DOMAIN db2_options)
             THEN Raise("KeyError")
             ELSE DB2Source__init__(
                      [name |-> data_source.name,
                       query |-> db2_options["query"],
                       table |-> db2_options["table"],
                       field_mapping |-> data_source.field_mapping,
                       timestamp_field |-> data_source.timestamp_field,
                       created_timestamp_column |->
                           data_source.created_timestamp_column,
                       description |-> data_source.description,
                       tags |-> data_source.tags,
                       owner |-> data_source.owner])

DB2Source_from_proto(data_source) ==
    IF ~HasCustomOptions(data_source)
    THEN Raise("AssertionError")
    ELSE LET db2_options ==
                 json_loads(decode(data_source.custom_options.configuration))
         IN  IF ~(OptionKeys \subseteq DOMAIN db2_options)
             THEN Raise("KeyError")
             ELSE DB2Source__init__(
                      [name |-> db2_options["name"],
                       query |-> db2_options["query"],
                       table |-> db2_options["table"],
                       field_mapping |-> data_source.field_mapping,
                       timestamp_field |-> data_source.timestamp_field,
                       created_timestamp_column |->
                           data_source.created_timestamp_column,
                       description |-> data_source.description,
                       tags |-> data_source.tags,
                       owner |-> data_source.owner])

DB2Source_to_proto(s) ==
    [name |-> s.name,
     type |-> "CUSTOM_SOURCE",
     data_source_class_type |->
         "feast.infra.offline_stores.contrib.db2_offline_store.db2_source.DB2Source",
     field_mapping |-> s.field_mapping,
     custom_options |-> DB2Options_to_proto(s._db2_options),
     description |-> s.description,
     tags |-> s.tags,
     owner |-> s.owner,
     timestamp_field |-> s.timestamp_field,
     created_timestamp_column |-> s.created_timestamp_column]

get_table_query_string_QueryFirst(s) ==
    IF Truthy(s._db2_options._query)
    THEN <<"(">> \o s._db2_options._query \o <<")">>
    ELSE s._db2_options._table

get_table_query_string(s) ==
    IF Truthy(s._db2_options._table)
    THEN s._db2_options._table
    ELSE <<"(">> \o s._db2_options._query \o <<")">>

IntrospectionQuery(s) ==
    <<"SELECT * FROM (">> \o get_table_query_string(s)
        \o <<") AS sub LIMIT 0">>

----------------------------------------------------------------------------
(* class SavedDatasetDB2Storage *)

SavedDatasetDB2Storage__init__Named(t) ==
    [db2_options |-> DB2Options__init__(t, None, t)]

SavedDatasetDB2Storage__init__(t) ==
    [db2_options |-> DB2Options__init__(None, None, t)]

SavedDatasetDB2Storage_from_proto(sp) ==
    LET r == DB2Options_from_proto(sp.custom_storage)
    IN  IF r.exc # NoExc
        THEN r
        ELSE Return(SavedDatasetDB2Storage__init__(r.value._table))

SavedDatasetDB2Storage_to_proto(st) ==
    [custom_storage |-> DB2Options_to_proto(st.db2_options)]

DefaultArgs ==
    [name |-> None, query |-> None, table |-> None,
     timestamp_field |-> <<>>, created_timestamp_column |-> <<>>,
     field_mapping |-> NoneDict, description |-> <<>>,
     tags |-> NoneDict, owner |-> <<>>]

to_data_source_AsQuery(st) ==
    DB2Source__init__([DefaultArgs EXCEPT !.query = st.db2_options._table])

to_data_source(st) ==
    DB2Source__init__([DefaultArgs EXCEPT !.table = st.db2_options._table])

----------------------------------------------------------------------------
(* Inputs: constructor arguments, configuration objects, table references *)

BaseDefault ==
    [timestamp_field |-> <<>>, created_timestamp_column |-> <<>>,
     field_mapping |-> NoneDict, description |-> <<>>,
     tags |-> NoneDict, owner |-> <<>>]

BaseNone ==
    [timestamp_field |-> None, created_timestamp_column |-> None,
     field_mapping |-> NoneDict, description |-> None,
     tags |-> NoneDict, owner |-> None]

BaseTs == [BaseDefault EXCEPT !.timestamp_field = <<"e">>]

BaseFull ==
    [timestamp_field |-> <<"e">>, created_timestamp_column |-> <<"c">>,
     field_mapping |-> {<<"a", "b">>}, description |-> <<"d">>,
     tags |-> {<<"k", "v">>}, owner |-> <<"o">>]

ArgsOver(bases) ==
    {[name |-> n, query |-> q, table |-> t] @@ b :
        n \in OptStr, q \in OptStr, t \in OptStr, b \in bases}

Args == ArgsOver({BaseDefault, BaseNone, BaseTs, BaseFull})

PairArgs == ArgsOver({BaseDefault, BaseTs})

ConfigKeys == <<"name", "query", "table", "extra">>

Absent == <<"absent">>

NoConfig == << <<"unset", None>> >>

MembersOf(f) ==
    LET Present(i) == f[i] # Absent
        RECURSIVE Build(_)
        Build(i) == IF i = 0 THEN <<>>
                    ELSE IF Present(i)
                    THEN Append(Build(i - 1), <<ConfigKeys[i], f[i]>>)
                    ELSE Build(i - 1)
    IN  Build(Len(ConfigKeys))

Configs ==
    {MembersOf(f) : f \in [1..Len(ConfigKeys) -> OptStr \cup {Absent}]}

Envelope(custom_options) ==
    [name |-> <<"n">>,
     type |-> "CUSTOM_SOURCE",
     data_source_class_type |->
         "feast.infra.offline_stores.contrib.db2_offline_store.db2_source.DB2Source",
     field_mapping |-> {<<"a", "b">>},
     custom_options |-> custom_options,
     description |-> <<"d">>,
     tags |-> {<<"k", "v">>},
     owner |-> <<"o">>,
     timestamp_field |-> <<"e">>,
     created_timestamp_column |-> <<"c">>]

NoCall == [op |-> "none", exc |-> NoExc, value |-> Null]

Called(op, r) == [op |-> op, exc |-> r.exc, value |-> r.value]

----------------------------------------------------------------------------
(* Initial states *)

InitRest ==
    /\ source = Null
    /\ other = Null
    /\ storage = Null
    /\ ret = NoCall
    /\ pc = "idle"
    /\ conn_open = FALSE
    /\ cur_open = FALSE
    /\ log = <<>>

InitSource ==
    /\ args \in Args
    /\ args2 = Null
    /\ cfg = NoConfig
    /\ table_ref = None
    /\ proto = Null
    /\ storage_proto = Null
    /\ InitRest

InitProto ==
    /\ args = Null
    /\ args2 = Null
    /\ cfg \in Configs
    /\ table_ref = None
    /\ \E has \in BOOLEAN :
          proto = Envelope(IF has
                           THEN [configuration |-> encode(json_dumps(cfg))]
                           ELSE Null)
    /\ storage_proto =
          [custom_storage |-> [configuration |-> encode(json_dumps(cfg))]]
    /\ InitRest

InitStorage ==
    /\ args = Null
    /\ args2 = Null
    /\ cfg = NoConfig
    /\ table_ref \in Strs
    /\ proto = Null
    /\ storage_proto = Null
    /\ InitRest

InitEq ==
    /\ args \in PairArgs
    /\ args2 \in PairArgs
    /\ cfg = NoConfig
    /\ table_ref = None
    /\ proto = Null
    /\ storage_proto = Null
    /\ InitRest

Init == InitSource \/ InitProto \/ InitStorage

----------------------------------------------------------------------------
(* Calls.  A call is made only while no introspection call is in progress. *)

Idle == pc \in {"idle", "returned", "raised"}

ConnVars == <<pc, conn_open, cur_open, log>>

Inputs == <<args, args2, cfg, table_ref>>

Construct ==
    /\ Idle
    /\ args # Null
    /\ LET r == DB2Source__init__(args)
       IN  /\ ret' = Called("DB2Source", r)
           /\ source' = IF r.exc = NoExc THEN r.value ELSE source
    /\ UNCHANGED <<Inputs, other, proto, storage, storage_proto, ConnVars>>

ConstructOther ==
    /\ Idle
    /\ args2 # Null
    /\ LET r == DB2Source__init__(args2)
       IN  /\ ret' = Called("DB2Source", r)
           /\ other' = IF r.exc = NoExc THEN r.value ELSE other
    /\ UNCHANGED <<Inputs, source, proto, storage, storage_proto, ConnVars>>

Eq ==
    /\ Idle
    /\ source # Null
    /\ other # Null
    /\ ret' = Called("__eq__", Return(DB2Source__eq__(source, other)))
    /\ UNCHANGED <<Inputs, source, other, proto, storage, storage_proto,
                   ConnVars>>

ToProto ==
    /\ Idle
    /\ source # Null
    /\ proto' = DB2Source_to_proto(source)
    /\ ret' = Called("to_proto", Return(proto'))
    /\ UNCHANGED <<Inputs, source, other, storage, storage_proto, ConnVars>>

FromProto ==
    /\ Idle
    /\ proto # Null
    /\ ret' = Called("from_proto", DB2Source_from_proto(proto))
    /\ UNCHANGED <<Inputs, source, other, proto, storage, storage_proto,
                   ConnVars>>

OptionsFromProto ==
    /\ Idle
    /\ proto # Null
    /\ HasCustomOptions(proto)
    /\ ret' = Called("DB2Options.from_proto",
                     DB2Options_from_proto(proto.custom_options))
    /\ UNCHANGED <<Inputs, source, other, proto, storage, storage_proto,
                   ConnVars>>

GetTableQueryString ==
    /\ Idle
    /\ source # Null
    /\ ret' = Called("get_table_query_string",
                     Return(get_table_query_string(source)))
    /\ UNCHANGED <<Inputs, source, other, proto, storage, storage_proto,
                   ConnVars>>

NewStorage ==
    /\ Idle
    /\ table_ref # None
    /\ storage' = SavedDatasetDB2Storage__init__(table_ref)
    /\ ret' = Called("SavedDatasetDB2Storage", Return(storage'))
    /\ UNCHANGED <<Inputs, source, other, proto, storage_proto, ConnVars>>

StorageToProto ==
    /\ Idle
    /\ storage # Null
    /\ storage_proto' = SavedDatasetDB2Storage_to_proto(storage)
    /\ ret' = Called("SavedDatasetDB2Storage.to_proto", Return(storage_proto'))
    /\ UNCHANGED <<Inputs, source, other, proto, storage, ConnVars>>

StorageFromProto ==
    /\ Idle
    /\ storage_proto # Null
    /\ ret' = Called("SavedDatasetDB2Storage.from_proto",
                     SavedDatasetDB2Storage_from_proto(storage_proto))
    /\ UNCHANGED <<Inputs, source, other, proto, storage, storage_proto,
                   ConnVars>>

ToDataSource ==
    /\ Idle
    /\ storage # Null
    /\ ret' = Called("to_data_source", to_data_source(storage))
    /\ UNCHANGED <<Inputs, source, other, proto, storage, storage_proto,
                   ConnVars>>

----------------------------------------------------------------------------
(* The database driver behind feast.infra.utils.db2.connection_utils:      *)
(* _get_conn returns an open connection, conn.cursor() an open cursor, and *)
(* leaving the with block of either closes it.                             *)

_get_conn(open) == TRUE

conn_cursor(open) == TRUE

cursor__exit__(open) == FALSE

connection__exit__(open) == FALSE

----------------------------------------------------------------------------
(* DB2Source.get_table_column_names_and_types, one step per evaluation     *)
(* of the with statement.  pc is the position inside the call.             *)

Op == "get_table_column_names_and_types"

Logged(e) == log' = Append(log, e)

Call ==
    /\ Idle
    /\ source # Null
    /\ pc' = "get_conn"
    /\ log' = <<>>
    /\ ret' = [op |-> Op, exc |-> NoExc, value |-> Null]
    /\ UNCHANGED <<Inputs, source, other, proto, storage, storage_proto,
                   conn_open, cur_open>>

GetConn ==
    /\ pc = "get_conn"
    /\ conn_open' = _get_conn(conn_open)
    /\ Logged(<<"connect">>)
    /\ pc' = "cursor"
    /\ UNCHANGED <<Inputs, source, other, proto, storage, storage_proto,
                   cur_open, ret>>

GetConnFails ==
    /\ pc = "get_conn"
    /\ ret' = [ret EXCEPT !.exc = "OperationalError"]
    /\ pc' = "raised"
    /\ UNCHANGED <<Inputs, source, other, proto, storage, storage_proto,
                   conn_open, cur_open, log>>

OpenCursor ==
    /\ pc = "cursor"
    /\ cur_open' = conn_cursor(cur_open)
    /\ Logged(<<"cursor">>)
    /\ pc' = "execute"
    /\ UNCHANGED <<Inputs, source, other, proto, storage, storage_proto,
                   conn_open, ret>>

OpenCursorFails ==
    /\ pc = "cursor"
    /\ ret' = [ret EXCEPT !.exc = "InterfaceError"]
    /\ pc' = "exit_conn"
    /\ UNCHANGED <<Inputs, source, other, proto, storage, storage_proto,
                   conn_open, cur_open, log>>

Execute ==
    /\ pc = "execute"
    /\ Logged(<<"execute", IntrospectionQuery(source)>>)
    /\ pc' = "description"
    /\ UNCHANGED <<Inputs, source, other, proto, storage, storage_proto,
                   conn_open, cur_open, ret>>

ExecuteFails_NoCleanup ==
    /\ pc = "execute"
    /\ Logged(<<"execute", IntrospectionQuery(source)>>)
    /\ ret' = [ret EXCEPT !.exc = "ProgrammingError"]
    /\ pc' = "raised"
    /\ UNCHANGED <<Inputs, source, other, proto, storage, storage_proto,
                   conn_open, cur_open>>

ExecuteFails ==
    /\ pc = "execute"
    /\ Logged(<<"execute", IntrospectionQuery(source)>>)
    /\ ret' = [ret EXCEPT !.exc = "ProgrammingError"]
    /\ pc' = "exit_cursor"
    /\ UNCHANGED <<Inputs, source, other, proto, storage, storage_proto,
                   conn_open, cur_open>>

ReadDescription ==
    /\ pc = "description"
    /\ Logged(<<"description", cur_open>>)
    /\ ret' = [ret EXCEPT !.value = [generator |-> "cur.description"]]
    /\ pc' = "exit_cursor"
    /\ UNCHANGED <<Inputs, source, other, proto, storage, storage_proto,
                   conn_open, cur_open>>

ExitCursor ==
    /\ pc = "exit_cursor"
    /\ cur_open' = cursor__exit__(cur_open)
    /\ Logged(<<"cursor.__exit__">>)
    /\ pc' = "exit_conn"
    /\ UNCHANGED <<Inputs, source, other, proto, storage, storage_proto,
                   conn_open, ret>>

ExitConn ==
    /\ pc = "exit_conn"
    /\ conn_open' = connection__exit__(conn_open)
    /\ Logged(<<"connection.__exit__">>)
    /\ pc' = IF ret.exc = NoExc THEN "returned" ELSE "raised"
    /\ UNCHANGED <<Inputs, source, other, proto, storage, storage_proto,
                   cur_open, ret>>

----------------------------------------------------------------------------
(* Specifications *)

Next ==
    \/ Construct
    \/ ToProto
    \/ FromProto
    \/ OptionsFromProto
    \/ GetTableQueryString
    \/ NewStorage
    \/ StorageToProto
    \/ StorageFromProto
    \/ ToDataSource
    \/ Call
    \/ GetConn
    \/ GetConnFails
    \/ OpenCursor
    \/ OpenCursorFails
    \/ Execute
    \/ ExecuteFails
    \/ ReadDescription
    \/ ExitCursor
    \/ ExitConn

Spec == Init /\ [][Next]_vars

NextEq ==
    \/ Construct
    \/ ConstructOther
    \/ Eq

SpecEq == InitEq /\ [][NextEq]_vars

----------------------------------------------------------------------------
(* Properties *)

(* C1: a source that was constructed and serialized with to_proto is       *)
(* rebuilt by from_proto without error, and the rebuilt source compares    *)
(* equal to the original and has the same name, the same stored            *)
(* name/query/table options and the same common fields.                    *)
SourceRoundTrip ==
    (source # Null /\ ret.op = "from_proto") =>
        /\ ret.exc = NoExc
        /\ DB2Source__eq__(ret.value, source)
        /\ DB2Source__eq__(source, ret.value)
        /\ ret.value.name = source.name
        /\ ret.value._db2_options._name = source._db2_options._name
        /\ ret.value._db2_options._query = source._db2_options._query
        /\ ret.value._db2_options._table = source._db2_options._table
        /\ ret.value.timestamp_field = source.timestamp_field
        /\ ret.value.created_timestamp_column = source.created_timestamp_column
        /\ ret.value.field_mapping = source.field_mapping
        /\ ret.value.description = source.description
        /\ ret.value.tags = source.tags
        /\ ret.value.owner = source.owner

SourceRoundTripWitness ==
    /\ source # Null
    /\ ret.op = "from_proto"
    /\ ret.exc = NoExc
    /\ args.name = None
    /\ source.name = args.table
    /\ source._db2_options._name = <<>>
    /\ source.owner = <<"o">>

(* C2: a constructor call with name None and table None raises             *)
(* DataSourceNoNameException whatever the other arguments are, and yields  *)
(* no source.                                                              *)
NameRequired ==
    (args # Null /\ ret.op = "DB2Source"
        /\ args.name = None /\ args.table = None) =>
        /\ ret.exc = "DataSourceNoNameException"
        /\ ret.value = Null
        /\ source = Null

NameRequiredWitness ==
    /\ args # Null
    /\ ret.op = "DB2Source"
    /\ args.name = None
    /\ args.table = None
    /\ args.query # None
    /\ args.query # <<>>
    /\ args.owner = <<"o">>
    /\ ret.exc = "DataSourceNoNameException"

(* C3: every source a constructor call returns has a non-empty name: the   *)
(* explicit name when a non-empty one was given, the table otherwise.      *)
NameNonEmpty ==
    /\ source # Null =>
        /\ source.name # None
        /\ source.name # <<>>
        /\ source.name = IF args.name # None /\ args.name # <<>>
                         THEN args.name ELSE args.table
    /\ (ret.op \in {"DB2Source", "from_proto", "to_data_source"}
            /\ ret.exc = NoExc) =>
        /\ ret.value.name # None
        /\ ret.value.name # <<>>

NameNonEmptyWitness ==
    /\ source # Null
    /\ ret.op = "DB2Source"
    /\ args.name = <<>>
    /\ source.name = args.table

(* C4: two sources with the same resolved query text, timestamp fields    *)
(* and base fields compare equal, and two sources whose resolved query     *)
(* text differs never compare equal.                                       *)
EqualityOverQueryText ==
    ret.op = "__eq__" =>
        LET sameText ==
                get_table_query_string(source) = get_table_query_string(other)
        IN  /\ (/\ sameText
                /\ source.timestamp_field = other.timestamp_field
                /\ source.created_timestamp_column
                       = other.created_timestamp_column
                /\ DataSource__eq__(source, other)) => ret.value
            /\ ~sameText => ~ret.value

(* C5: the serialized options are an object with exactly the keys name,    *)
(* query and table, every value a string, an absent argument written as    *)
(* the empty string.                                                       *)
OptionsThreeStringKeys ==
    LET text(p) == p.configuration.bytes
        WellFormed(t) ==
            /\ Len(t) = 3
            /\ {t[i][1] : i \in 1..Len(t)} = {"name", "query", "table"}
            /\ \A i \in 1..Len(t) : t[i][2][1] = "str"
        Member(t, k) == t[CHOOSE i \in 1..Len(t) : t[i][1] = k][2]
        Written(a, t) ==
            \A k \in {"name", "query", "table"} :
                Member(t, k) = <<"str", IF a[k] = None THEN <<>> ELSE a[k]>>
    IN  /\ (source # Null /\ proto # Null) =>
                /\ WellFormed(text(proto.custom_options))
                /\ Written(args, text(proto.custom_options))
        /\ (storage # Null /\ storage_proto # Null) =>
                /\ WellFormed(text(storage_proto.custom_storage))
                /\ Written([name |-> None, query |-> None, table |-> table_ref],
                           text(storage_proto.custom_storage))
        /\ (ret.op = "DB2Options.from_proto" /\ ret.exc = NoExc) =>
                WellFormed(text(DB2Options_to_proto(ret.value)))

OptionsThreeStringKeysWitness ==
    /\ source # Null
    /\ proto # Null
    /\ ret.op = "to_proto"
    /\ args.name = None
    /\ args.query = None
    /\ \E i \in 1..3 :
          proto.custom_options.configuration.bytes[i] = <<"query", <<"str", <<>>>>>>

(* C6 as stated: from_proto fails whenever the key set of the              *)
(* configuration object is not exactly name, query, table, and             *)
(* DB2Source.from_proto fails without custom_options.                      *)
ExactKeysOrFail ==
    cfg # NoConfig =>
        LET keys == {cfg[i][1] : i \in 1..Len(cfg)}
        IN  /\ (ret.op = "from_proto" /\ ~HasCustomOptions(proto)) =>
                    ret.exc # NoExc
            /\ (ret.op \in {"from_proto", "DB2Options.from_proto"}
                    /\ keys # {"name", "query", "table"}) =>
                    ret.exc # NoExc

(* C6 amended: from_proto fails with KeyError when one of the keys name,   *)
(* query, table is missing, DB2Source.from_proto fails without             *)
(* custom_options; an added key is ignored: DB2Options.from_proto then     *)
(* succeeds with the options read from the three keys, and                 *)
(* DB2Source.from_proto never fails with KeyError and, when it succeeds,   *)
(* carries the options read from the three keys.                           *)
ThreeKeysOrFail ==
    cfg # NoConfig =>
        LET keys == {cfg[i][1] : i \in 1..Len(cfg)}
            val(k) == LET v == cfg[CHOOSE i \in 1..Len(cfg) : cfg[i][1] = k][2]
                      IN  IF v = None THEN <<>> ELSE v
            opts == [_name |-> val("name"), _query |-> val("query"),
                     _table |-> val("table")]
            complete == {"name", "query", "table"} \subseteq keys
        IN  /\ (ret.op = "from_proto" /\ ~HasCustomOptions(proto)) =>
                    (ret.exc = "AssertionError" /\ ret.value = Null)
            /\ (ret.op = "from_proto" /\ HasCustomOptions(proto)) =>
                    /\ ~complete => (ret.exc = "KeyError" /\ ret.value = Null)
                    /\ complete => ret.exc # "KeyError"
                    /\ (complete /\ ret.exc = NoExc) =>
                            ret.value._db2_options = opts
            /\ ret.op = "DB2Options.from_proto" =>
                    /\ ~complete => (ret.exc = "KeyError" /\ ret.value = Null)
                    /\ complete => (ret.exc = NoExc /\ ret.value = opts)

ThreeKeysOrFailWitness ==
    /\ cfg # NoConfig
    /\ Len(cfg) = 4
    /\ ret.op = "DB2Options.from_proto"
    /\ ret.exc = NoExc
    /\ ret.value._table # <<>>

(* C7: get_table_query_string returns the table when the table is          *)
(* non-empty, also when a query was given, and otherwise the query in      *)
(* parentheses, "()" for a source with a name only; the call changes       *)
(* neither the source nor its arguments.                                   *)
QueryStringResolution ==
    [][ret'.op = "get_table_query_string" =>
        /\ ret'.exc = NoExc
        /\ ret'.value =
              IF args.table # None /\ args.table # <<>>
              THEN args.table
              ELSE <<"(">> \o (IF args.query = None THEN <<>> ELSE args.query)
                       \o <<")">>
        /\ (args.table \in {None, <<>>} /\ args.query \in {None, <<>>}) =>
              ret'.value = <<"(", ")">>
        /\ source' = source
        /\ source # Null]_vars

QueryStringResolutionWitness ==
    /\ ret.op = "get_table_query_string"
    /\ args.table # None
    /\ args.table # <<>>
    /\ args.query # None
    /\ args.query # <<>>
    /\ ret.value = args.table

(* C8: a storage built from a table reference, serialized and rebuilt has  *)
(* that table reference and empty name and query options; of a serialized  *)
(* configuration only the table key reaches the rebuilt storage.           *)
StorageRoundTrip ==
    /\ (table_ref # None /\ ret.op = "SavedDatasetDB2Storage.from_proto") =>
        /\ ret.exc = NoExc
        /\ ret.value.db2_options =
              [_name |-> <<>>, _query |-> <<>>, _table |-> table_ref]
    /\ (cfg # NoConfig /\ ret.op = "SavedDatasetDB2Storage.from_proto"
            /\ ret.exc = NoExc) =>
        LET t == cfg[CHOOSE i \in 1..Len(cfg) : cfg[i][1] = "table"][2]
        IN  ret.value.db2_options =
              [_name |-> <<>>, _query |-> <<>>,
               _table |-> IF t = None THEN <<>> ELSE t]

StorageRoundTripWitness ==
    /\ table_ref # None
    /\ table_ref # <<>>
    /\ storage # Null
    /\ ret.op = "SavedDatasetDB2Storage.from_proto"
    /\ ret.exc = NoExc
    /\ ret.value = storage

(* C9 as stated: to_data_source returns, for every storage, the empty      *)
(* table reference included, a source named after the table reference      *)
(* with an empty query whose query string is the table reference.          *)
ToDataSourceAlways ==
    ret.op = "to_data_source" =>
        /\ ret.exc = NoExc
        /\ ret.value.name = table_ref
        /\ ret.value._db2_options._query = <<>>
        /\ get_table_query_string(ret.value) = table_ref

(* C9 amended: for a storage with a non-empty table reference              *)
(* to_data_source returns such a source; for the empty table reference it  *)
(* raises AssertionError and returns no source; the storage is unchanged.  *)
ToDataSourceNonEmpty ==
    ret.op = "to_data_source" =>
        /\ table_ref # <<>> =>
            /\ ret.exc = NoExc
            /\ ret.value.name = table_ref
            /\ ret.value._db2_options._query = <<>>
            /\ get_table_query_string(ret.value) = table_ref
        /\ table_ref = <<>> => (ret.exc = "AssertionError" /\ ret.value = Null)
        /\ storage.db2_options =
              [_name |-> <<>>, _query |-> <<>>, _table |-> table_ref]

ToDataSourceNonEmptyWitness ==
    /\ ret.op = "to_data_source"
    /\ table_ref # <<>>
    /\ ret.exc = NoExc
    /\ ret.value.name = table_ref

====
